---------------------------- MODULE Spec2Model ----------------------------
(***************************************************************************)
(* A model of the forecast pipeline of app/agent.py: ForecastAgent.run and *)
(* the helpers it calls (_parse_json_loose, _compress_themes,              *)
(* extract_financial_metrics, QualitativeAnalysisTool,                     *)
(* fetch_tcs_stock_price).                                                 *)
(*                                                                         *)
(* Text is a sequence of lexical chunks.  A chunk is one of the characters *)
(* that matter to the regular expressions and to the JSON grammar          *)
(*   "{" "}" "[" "]" ":" ","   Q (the double quote)   " " (white space)    *)
(*   F (the three-backtick fence marker)   J (the word json, any case)     *)
(*   "1" (a digit)                                                         *)
(* or a run of other characters (a word such as "company").  Len counts    *)
(* chunks.                                                                 *)
(*                                                                         *)
(* A Python / JSON value is a record [t, s, a, o]: t the type tag, s the   *)
(* chunks of a string or number, a the items of a list, o the items of a   *)
(* dict in insertion order, each [k |-> key chunks, v |-> value].          *)
(***************************************************************************)
EXTENDS Integers, Sequences, FiniteSets, TLC

\* ------------------------------------------------------------- bounds

MaxTextLen == 5
MaxDocs == 2
MaxTranscripts == 1
MaxSnippets == 3
MaxSnippetLen == 3
MaxLimit == 2

\* ------------------------------------------------------------- values

Min(S) == CHOOSE x \in S : \A y \in S : x <= y

Nil == [t |-> "nil", s |-> <<>>, a |-> <<>>, o |-> <<>>]
PyNone == [t |-> "null", s |-> <<>>, a |-> <<>>, o |-> <<>>]
Str(chunks) == [t |-> "str", s |-> chunks, a |-> <<>>, o |-> <<>>]
Num(chunks) == [t |-> "num", s |-> chunks, a |-> <<>>, o |-> <<>>]
List(items) == [t |-> "list", s |-> <<>>, a |-> items, o |-> <<>>]
Dict(items) == [t |-> "dict", s |-> <<>>, a |-> <<>>, o |-> items]

S(word) == Str(<<word>>)
EmptyStr == Str(<<>>)

IsDict(v) == v.t = "dict"
IsList(v) == v.t = "list"
IsStr(v) == v.t = "str"

HasKey(d, k) == \E i \in DOMAIN d.o : d.o[i].k = k
Get(d, k) == d.o[CHOOSE i \in DOMAIN d.o : d.o[i].k = k].v
\* d[k] = v
SetItem(d, k, v) ==
    IF HasKey(d, k)
    THEN Dict([i \in DOMAIN d.o |-> IF d.o[i].k = k THEN [k |-> k, v |-> v] ELSE d.o[i]])
    ELSE Dict(Append(d.o, [k |-> k, v |-> v]))
\* d.setdefault(k, v)
SetDefault(d, k, v) == IF HasKey(d, k) THEN d ELSE SetItem(d, k, v)
\* bool(v) for the values the pipeline tests
Truthy(v) ==
    CASE v.t = "list" -> v.a # <<>>
      [] v.t = "dict" -> v.o # <<>>
      [] v.t = "str" -> v.s # <<>>
      [] v.t = "null" -> FALSE
      [] OTHER -> TRUE

\* ------------------------------------------------------------- json.loads

Digits == {"1"}

RECURSIVE FirstIn(_, _, _), FirstNotIn(_, _, _)
\* the first index from i on whose chunk is in A (is not in A), Len(t) + 1 if none
FirstIn(t, i, A) ==
    IF i > Len(t) THEN Len(t) + 1 ELSE IF t[i] \in A THEN i ELSE FirstIn(t, i + 1, A)
FirstNotIn(t, i, A) ==
    IF i > Len(t) THEN Len(t) + 1 ELSE IF t[i] \notin A THEN i ELSE FirstNotIn(t, i + 1, A)

SkipWs(t, i) == FirstNotIn(t, i, {" "})

ParseFail == [ok |-> FALSE, v |-> Nil, j |-> 0]

\* t[i] is the opening quote
ParseString(t, i) ==
    LET close == FirstIn(t, i + 1, {"Q"})
    IN IF close > Len(t) THEN ParseFail
       ELSE [ok |-> TRUE, v |-> Str(SubSeq(t, i + 1, close - 1)), j |-> close + 1]

\* t[i] is a digit
ParseNumber(t, i) ==
    LET end == FirstNotIn(t, i, Digits)
    IN [ok |-> TRUE, v |-> Num(SubSeq(t, i, end - 1)), j |-> end]

RECURSIVE ParseValue(_, _), ParseMembers(_, _, _, _), ParseElements(_, _, _, _)

ParseValue(t, i) ==
    LET k == SkipWs(t, i)
    IN IF k > Len(t) THEN ParseFail
       ELSE CASE t[k] = "{" -> ParseMembers(t, k + 1, Dict(<<>>), TRUE)
              [] t[k] = "[" -> ParseElements(t, k + 1, <<>>, TRUE)
              [] t[k] = "Q" -> ParseString(t, k)
              [] t[k] \in Digits -> ParseNumber(t, k)
              [] OTHER -> ParseFail

\* the members of an object, after its "{" (first) or after a ","
ParseMembers(t, i, acc, first) ==
    LET k == SkipWs(t, i)
    IN IF k > Len(t) THEN ParseFail
       ELSE IF t[k] = "}"
       THEN IF first THEN [ok |-> TRUE, v |-> acc, j |-> k + 1] ELSE ParseFail
       ELSE IF t[k] # "Q" THEN ParseFail
       ELSE LET key == ParseString(t, k)
            IN IF ~key.ok THEN ParseFail
               ELSE LET c == SkipWs(t, key.j)
                    IN IF c > Len(t) \/ t[c] # ":" THEN ParseFail
                       ELSE LET val == ParseValue(t, c + 1)
                            IN IF ~val.ok THEN ParseFail
                               ELSE LET d == SkipWs(t, val.j)
                                        more == SetItem(acc, key.v.s, val.v)
                                    IN IF d > Len(t) THEN ParseFail
                                       ELSE IF t[d] = ","
                                       THEN ParseMembers(t, d + 1, more, FALSE)
                                       ELSE IF t[d] = "}"
                                       THEN [ok |-> TRUE, v |-> more, j |-> d + 1]
                                       ELSE ParseFail

\* the elements of an array, after its "[" (first) or after a ","
ParseElements(t, i, acc, first) ==
    LET k == SkipWs(t, i)
    IN IF k > Len(t) THEN ParseFail
       ELSE IF t[k] = "]"
       THEN IF first THEN [ok |-> TRUE, v |-> List(acc), j |-> k + 1] ELSE ParseFail
       ELSE LET val == ParseValue(t, k)
            IN IF ~val.ok THEN ParseFail
               ELSE LET d == SkipWs(t, val.j)
                        more == Append(acc, val.v)
                    IN IF d > Len(t) THEN ParseFail
                       ELSE IF t[d] = ","
                       THEN ParseElements(t, d + 1, more, FALSE)
                       ELSE IF t[d] = "]"
                       THEN [ok |-> TRUE, v |-> List(more), j |-> d + 1]
                       ELSE ParseFail

\* json.loads(t): [ok, v]; ok = FALSE stands for the JSONDecodeError
JsonLoads(t) ==
    LET r == ParseValue(t, 1)
    IN IF r.ok /\ SkipWs(t, r.j) > Len(t)
       THEN [ok |-> TRUE, v |-> r.v]
       ELSE [ok |-> FALSE, v |-> Nil]

\* ------------------------------------------------------------- _parse_json_loose

Max(A) == CHOOSE x \in A : \A y \in A : y <= x

\* the indices of t from i on whose chunk is in A
Places(t, i, A) == {j \in i..Len(t) : t[j] \in A}

RECURSIVE LastNotIn(_, _, _)
\* the last index up to i whose chunk is not in A, 0 if none
LastNotIn(t, i, A) ==
    IF i < 1 THEN 0 ELSE IF t[i] \notin A THEN i ELSE LastNotIn(t, i - 1, A)

\* text.strip()
Strip(t) == SubSeq(t, FirstNotIn(t, 1, {" "}), LastNotIn(t, Len(t), {" "}))

\* where group(1) starts for a fence opening at i: past an optional json tag
FenceBodyStart(t, i) == IF i + 1 <= Len(t) /\ t[i + 1] = "J" THEN i + 2 ELSE i + 1

\* re.search(r"```(?:json)?(.*?)```", text, DOTALL | IGNORECASE):
\* [found, group1]; the leftmost opening fence that has a closing fence after
\* it, and the shortest body, up to the next fence
FenceMatch(t) ==
    LET fences == Places(t, 1, {"F"})
        opens == {i \in fences : \E j \in fences : j >= FenceBodyStart(t, i)}
    IN IF opens = {}
       THEN [found |-> FALSE, group1 |-> <<>>]
       ELSE LET b == FenceBodyStart(t, Min(opens))
            IN [found |-> TRUE,
                group1 |-> SubSeq(t, b, Min({j \in fences : j >= b}) - 1)]

\* re.search(r"\{.*\}", text, DOTALL): the first "{" up to the last "}"
BraceMatch(t) ==
    LET opens == Places(t, 1, {"{"})
        closes == Places(t, 1, {"}"})
    IN IF opens = {} \/ closes = {} \/ Max(closes) < Min(opens)
       THEN [found |-> FALSE, group0 |-> <<>>]
       ELSE [found |-> TRUE, group0 |-> SubSeq(t, Min(opens), Max(closes))]

\* the text that the direct parse sees
FenceStripped(text) ==
    LET stripped == Strip(text)
        fence_match == FenceMatch(stripped)
    IN IF fence_match.found THEN Strip(fence_match.group1) ELSE stripped

\* _parse_json_loose(text): [ok, v]; ok = FALSE stands for the exception raised
ParseJsonLoose(raw_text) ==
    LET text == FenceStripped(raw_text)
        direct == JsonLoads(text)
        brace_match == BraceMatch(text)
    IN IF direct.ok THEN direct
       ELSE IF brace_match.found THEN JsonLoads(brace_match.group0)
       ELSE [ok |-> FALSE, v |-> Nil]

\* ------------------------------------------------------------- _compress_themes

Take(seq, n) == SubSeq(seq, 1, IF n < Len(seq) THEN n ELSE Len(seq))

\* the inner loop: the str items of snippets, each cut to max_chars
TrimSnippets(snippets, max_chars) ==
    LET strs == SelectSeq(snippets, IsStr)
    IN [i \in DOMAIN strs |-> Str(Take(strs[i].s, max_chars))]

\* TrimmedOf, were the slice one snippet too long
TrimmedOfOneMore(snippets, max_snippets, max_chars) ==
    TrimSnippets(Take(snippets, max_snippets + 1), max_chars)

\* snippets[:max_snippets_per_topic], trimmed
TrimmedOf(snippets, max_snippets, max_chars) ==
    TrimSnippets(Take(snippets, max_snippets), max_chars)

KeepsTopic(item, max_snippets, max_chars) ==
    /\ IsList(item.v)
    /\ TrimmedOf(item.v.a, max_snippets, max_chars) # <<>>

\* _compress_themes(themes, max_snippets_per_topic, max_chars_per_snippet)
CompressThemes(themes, max_snippets, max_chars) ==
    IF ~IsDict(themes) THEN themes
    ELSE LET kept == SelectSeq(themes.o, LAMBDA item : KeepsTopic(item, max_snippets, max_chars))
         IN Dict([i \in DOMAIN kept |->
                    [k |-> kept[i].k,
                     v |-> List(TrimmedOf(kept[i].v.a, max_snippets, max_chars))]])

DefaultMaxSnippets == 2
DefaultMaxChars == 400

\* ------------------------------------------------------------- the file system

Paths == {"q1.pdf", "q2.pdf"}
FileKinds == {"unreadable", "report", "blank"}

Readable(fs, p) == fs[p] # "unreadable"

\* re.search(pat, text) for the text of a file of this kind: group(1) or None
PatternMatch(kind, pat) ==
    IF kind = "report" /\ pat \in {"revenue", "net_profit", "ebit_margin"}
    THEN S("1") ELSE PyNone

\* _find(patterns, text): the first pattern that matches wins
RECURSIVE Find(_, _)
Find(patterns, kind) ==
    IF patterns = <<>> THEN PyNone
    ELSE IF PatternMatch(kind, Head(patterns)) # PyNone
    THEN PatternMatch(kind, Head(patterns))
    ELSE Find(Tail(patterns), kind)

K(word) == <<word>>
Item(word, v) == [k |-> K(word), v |-> v]
PathList(paths) == List([i \in DOMAIN paths |-> S(paths[i])])

DocMetrics(kind) ==
    Dict(<<Item("total_revenue_inr_cr", Find(<<"total_revenue", "revenue">>, kind)),
           Item("net_profit_inr_cr", Find(<<"net_profit", "profit_after_tax">>, kind)),
           Item("operating_margin_pct", Find(<<"operating_margin", "ebit_margin">>, kind))>>)

\* DocsRead, were a failed read to leave an entry all the same
DocsReadAll(pdf_paths, fs) == pdf_paths

\* the paths whose read succeeded, in input order
DocsRead(pdf_paths, fs) == SelectSeq(pdf_paths, LAMBDA p : Readable(fs, p))

\* extract_financial_metrics(pdf_paths)
ExtractFinancialMetrics(pdf_paths, fs) ==
    LET read == DocsRead(pdf_paths, fs)
        docs == [i \in DOMAIN read |->
                   Dict(<<Item("path", S(read[i])), Item("metrics", DocMetrics(fs[read[i]]))>>)]
        trend0 == Dict(<<Item("docs_analyzed", PathList(read))>>)
        trend == IF Len(docs) >= 2
                 THEN SetItem(SetItem(trend0, K("revenue_direction"), S("compare latest vs previous")),
                              K("margin_direction"), S("compare latest vs previous"))
                 ELSE trend0
    IN Dict(<<Item("documents", List(docs)), Item("trend_summary", trend)>>)

\* ------------------------------------------------------------- QualitativeAnalysisTool

\* the chunks the splitter makes of one transcript's text
ChunksOf(kind) ==
    IF kind = "report" THEN <<S("demand"), S("margin"), S("deals")>> ELSE <<>>

RECURSIVE AllChunks(_, _)
\* build_index: the chunks of every transcript that could be read
AllChunks(transcript_paths, fs) ==
    IF transcript_paths = <<>> THEN <<>>
    ELSE (IF Readable(fs, Head(transcript_paths)) THEN ChunksOf(fs[Head(transcript_paths)]) ELSE <<>>)
         \o AllChunks(Tail(transcript_paths), fs)

TopK == 5
\* vdb.similarity_search(q, k): at most k chunks of the index
SimilaritySearch(vdb, q, k) == Take(vdb, k)

Queries == <<"revenue growth drivers and headwinds",
             "margin outlook and cost pressures",
             "deal pipeline and demand commentary",
             "AI and GenAI opportunities and use-cases",
             "client spend behaviour and macro commentary",
             "key risks highlighted by management">>

\* query_themes(queries) on a built index
QueryThemes(vdb, queries) ==
    Dict([i \in DOMAIN queries |->
            [k |-> K(queries[i]), v |-> List(SimilaritySearch(vdb, queries[i], TopK))]])

\* ------------------------------------------------------------- fetch_tcs_stock_price

MarketResponses == {"error", "price", "no_price"}

\* resp: what the HTTP request and the JSON of its answer came to
FetchTcsStockPrice(resp) ==
    CASE resp = "price" -> Dict(<<Item("symbol", S("TCS.NS")), Item("price_inr", Num(<<"1">>))>>)
      [] resp = "no_price" -> Dict(<<Item("symbol", S("TCS.NS")), Item("price_inr", PyNone)>>)
      [] OTHER -> Dict(<<>>)

\* ------------------------------------------------------------- the user prompt

\* A long text is followed by its characters' origin, not their value: a run
\* is the characters lo..hi of the text named part, and a text is a sequence
\* of runs, none of them empty.
Run(part, lo, hi) == [part |-> part, lo |-> lo, hi |-> hi]
\* the text named part, n characters long
Whole(part, n) == IF n = 0 THEN <<>> ELSE <<Run(part, 1, n)>>

RECURSIVE Chars(_)
\* len(text)
Chars(text) ==
    IF text = <<>> THEN 0 ELSE (Head(text).hi - Head(text).lo + 1) + Chars(Tail(text))

Newline == Whole("\n", 1)

RECURSIVE Join(_)
\* "\n".join(parts)
Join(parts) ==
    IF parts = <<>> THEN <<>>
    ELSE IF Len(parts) = 1 THEN Head(parts)
    ELSE Head(parts) \o Newline \o Join(Tail(parts))

MAX_PROMPT_CHARS == 10000

TaskPrefixChars == 6
FinHeadingChars == 100
ThemesHeadingChars == 95
MarketHeadingChars == 57
ClosingChars == 126

\* the closing instruction
Closing == Whole("closing", ClosingChars)

\* user_parts; q is len(query), d the lengths of the three json.dumps texts
UserParts(q, d) ==
    << Whole("Task: ", TaskPrefixChars) \o Whole("query", q),
       <<>>,
       Whole("fin_heading", FinHeadingChars),
       Whole("fin", d.fin),
       <<>>,
       Whole("themes_heading", ThemesHeadingChars),
       Whole("themes", d.themes),
       <<>>,
       Whole("market_heading", MarketHeadingChars),
       Whole("market", d.market),
       <<>>,
       Closing >>

RECURSIVE DropChars(_, _), TakeChars(_, _)
\* text[k:], for 0 <= k
DropChars(text, k) ==
    IF k = 0 \/ text = <<>> THEN text
    ELSE LET n == Head(text).hi - Head(text).lo + 1
         IN IF k >= n THEN DropChars(Tail(text), k - n)
            ELSE <<Run(Head(text).part, Head(text).lo + k, Head(text).hi)>> \o Tail(text)
\* text[:k], for 0 <= k
TakeChars(text, k) ==
    IF k = 0 \/ text = <<>> THEN <<>>
    ELSE LET n == Head(text).hi - Head(text).lo + 1
         IN IF k >= n THEN <<Head(text)>> \o TakeChars(Tail(text), k - n)
            ELSE <<Run(Head(text).part, Head(text).lo, Head(text).lo + k - 1)>>

\* LastChars, were the head of the text kept
LastCharsFromHead(text, n) == TakeChars(text, n)

\* text[-n:]
LastChars(text, n) ==
    IF n = 0 \/ Chars(text) <= n THEN text ELSE DropChars(text, Chars(text) - n)

\* step 4 of run: the user message
UserPrompt(q, d) ==
    LET joined == Join(UserParts(q, d))
    IN IF Chars(joined) > MAX_PROMPT_CHARS THEN LastChars(joined, MAX_PROMPT_CHARS) ELSE joined

\* ------------------------------------------------------------- ForecastAgent.run

VARIABLES
    pc,             \* where the call of run is
    disk,           \* what each path holds
    financial_pdfs, \* argument of run
    transcripts,    \* argument of run
    fin,            \* the metric set
    raw_themes,     \* what query_themes returned (input of _compress_themes)
    limits,         \* max_snippets_per_topic and max_chars_per_snippet
    themes,         \* the themes of the prompt (output of _compress_themes)
    market,         \* the market context
    marketResp,     \* how the market request of this call went
    raw,            \* the text the model answered
    parsed,         \* what _parse_json_loose made of raw
    result,         \* what run returned
    stages,         \* the stages of this call, in the order they ran
    llmCalls,       \* calls of self.llm.invoke in this call of run
    ragLog,         \* calls made to QualitativeAnalysisTool in this call of run
    error,          \* the exception that left run, "" if none
    query,          \* len(query), query the argument of run
    dumps,          \* the lengths of json.dumps of fin, themes and market
    user_prompt     \* the user message

vars == <<pc, disk, financial_pdfs, transcripts, fin, raw_themes, limits, themes,
          market, marketResp, raw, parsed, result, stages, llmCalls, ragLog, error,
          query, dumps, user_prompt>>

promptVars == <<query, dumps, user_prompt>>

\* no prompt was built
NoPrompt ==
    /\ query = 0
    /\ dumps = [fin |-> 0, themes |-> 0, market |-> 0]
    /\ user_prompt = <<>>

SeqsUpTo(A, n) == UNION {[1..k -> A] : k \in 0..n}

NoTranscriptSentinel == List(<<S("No transcript provided by user.")>>)
DegradedSentinel == List(<<S("Transcript analysis failed; proceeding with financials only.")>>)

RagOutcomes == {"ok", "init_fails", "build_index_fails", "query_themes_fails"}

\* one call made to the retriever, and whether it raised
RagCall(op, raised) == [op |-> op, raised |-> raised]
RagFailed(log) == \E i \in DOMAIN log : log[i].raised

\* Retrieval, were the retriever consulted for an empty transcript list too
RetrievalNoShortCircuit(transcript_paths, fs, outcome) ==
    IF outcome = "ok"
    THEN LET answer == QueryThemes(AllChunks(transcript_paths, fs), Queries)
         IN [themes |-> CompressThemes(answer, DefaultMaxSnippets, DefaultMaxChars),
             raw_themes |-> answer,
             calls |-> <<RagCall("init", FALSE), RagCall("build_index", FALSE),
                         RagCall("query_themes", FALSE)>>,
             raised |-> FALSE]
    ELSE [themes |-> DegradedSentinel, raw_themes |-> Nil,
          calls |-> <<RagCall("init", TRUE)>>, raised |-> FALSE]

\* Retrieval, were its try block to catch nothing
RetrievalPropagates(transcript_paths, fs, outcome) ==
    IF transcript_paths # <<>> /\ outcome # "ok"
    THEN [themes |-> List(<<>>), raw_themes |-> Nil,
          calls |-> <<RagCall("init", TRUE)>>, raised |-> TRUE]
    ELSE IF transcript_paths # <<>>
    THEN LET answer == QueryThemes(AllChunks(transcript_paths, fs), Queries)
         IN [themes |-> CompressThemes(answer, DefaultMaxSnippets, DefaultMaxChars),
             raw_themes |-> answer,
             calls |-> <<RagCall("init", FALSE), RagCall("build_index", FALSE),
                         RagCall("query_themes", FALSE)>>,
             raised |-> FALSE]
    ELSE [themes |-> NoTranscriptSentinel, raw_themes |-> Nil, calls |-> <<>>, raised |-> FALSE]

\* step 2 of run, the try block: [themes, raw_themes, calls, raised];
\* outcome says which call of the retriever, if any, raises
Retrieval(transcript_paths, fs, outcome) ==
    IF transcript_paths # <<>>
    THEN CASE outcome = "init_fails" ->
                [themes |-> DegradedSentinel, raw_themes |-> Nil,
                 calls |-> <<RagCall("init", TRUE)>>, raised |-> FALSE]
           [] outcome = "build_index_fails" ->
                [themes |-> DegradedSentinel, raw_themes |-> Nil,
                 calls |-> <<RagCall("init", FALSE), RagCall("build_index", TRUE)>>,
                 raised |-> FALSE]
           [] outcome = "query_themes_fails" ->
                [themes |-> DegradedSentinel, raw_themes |-> Nil,
                 calls |-> <<RagCall("init", FALSE), RagCall("build_index", FALSE),
                             RagCall("query_themes", TRUE)>>,
                 raised |-> FALSE]
           [] OTHER ->
                LET answer == QueryThemes(AllChunks(transcript_paths, fs), Queries)
                IN [themes |-> CompressThemes(answer, DefaultMaxSnippets, DefaultMaxChars),
                    raw_themes |-> answer,
                    calls |-> <<RagCall("init", FALSE), RagCall("build_index", FALSE),
                                RagCall("query_themes", FALSE)>>,
                    raised |-> FALSE]
    ELSE [themes |-> NoTranscriptSentinel, raw_themes |-> Nil, calls |-> <<>>, raised |-> FALSE]

UnclearTrends ==
    Dict(<<Item("revenue", S("unclear")), Item("net_profit", S("unclear")),
           Item("operating_margin", S("unclear"))>>)

SourcesOf(fin_paths, transcript_paths) ==
    Dict(<<Item("financial_docs", PathList(fin_paths)),
           Item("transcripts", PathList(transcript_paths))>>)

\* FallbackResult, were it to pass for a confident answer
FallbackResultSilent(th, fin_paths, transcript_paths, mkt) ==
    Dict(<<Item("company", S("TCS")),
           Item("period_analyzed", List(<<>>)),
           Item("financial_trends", UnclearTrends),
           Item("management_themes", IF Truthy(th) THEN th ELSE List(<<>>)),
           Item("risks", List(<<>>)),
           Item("opportunities", List(<<>>)),
           Item("qualitative_forecast_next_quarter", EmptyStr),
           Item("confidence",
                Dict(<<Item("level", S("medium")), Item("reasons", List(<<>>))>>)),
           Item("sources", SourcesOf(fin_paths, transcript_paths)),
           Item("market_context", mkt)>>)

\* the payload returned when _parse_json_loose raised
FallbackResult(th, fin_paths, transcript_paths, mkt) ==
    Dict(<<Item("company", S("TCS")),
           Item("period_analyzed", List(<<>>)),
           Item("financial_trends", UnclearTrends),
           Item("management_themes", IF Truthy(th) THEN th ELSE List(<<>>)),
           Item("risks", List(<<S("Model output invalid JSON")>>)),
           Item("opportunities", List(<<>>)),
           Item("qualitative_forecast_next_quarter", EmptyStr),
           Item("confidence",
                Dict(<<Item("level", S("low")),
                       Item("reasons", List(<<S("Invalid JSON from model")>>))>>)),
           Item("sources", SourcesOf(fin_paths, transcript_paths)),
           Item("market_context", mkt)>>)

\* step 6 of run: the setdefault calls
WithDefaults(obj) ==
    LET d1 == SetDefault(obj, K("company"), S("TCS"))
        d2 == SetDefault(d1, K("period_analyzed"), List(<<>>))
        d3 == SetDefault(d2, K("financial_trends"), UnclearTrends)
        d4 == SetDefault(d3, K("management_themes"), List(<<>>))
        d5 == SetDefault(d4, K("risks"), List(<<>>))
        d6 == SetDefault(d5, K("opportunities"), List(<<>>))
        d7 == SetDefault(d6, K("qualitative_forecast_next_quarter"), EmptyStr)
    IN SetDefault(d7, K("confidence"),
                  Dict(<<Item("level", S("low")),
                         Item("reasons", List(<<S("Missing confidence from model")>>))>>))

\* WithPipelineFields, were the model's own values kept where it gave some
WithPipelineFieldsMerged(obj, fin_paths, transcript_paths, mkt) ==
    SetDefault(SetDefault(obj, K("sources"), SourcesOf(fin_paths, transcript_paths)),
               K("market_context"), mkt)

\* the two assignments that end run
WithPipelineFields(obj, fin_paths, transcript_paths, mkt) ==
    SetItem(SetItem(obj, K("sources"), SourcesOf(fin_paths, transcript_paths)),
            K("market_context"), mkt)

\* steps 5 and 6 of run: [raised, result]; a parsed value that is no dict has
\* no setdefault, and the AttributeError leaves run
Normalized(p, th, fin_paths, transcript_paths, mkt) ==
    IF ~p.ok
    THEN [raised |-> FALSE, result |-> FallbackResult(th, fin_paths, transcript_paths, mkt)]
    ELSE IF ~IsDict(p.v)
    THEN [raised |-> TRUE, result |-> Nil]
    ELSE [raised |-> FALSE,
          result |-> WithPipelineFields(WithDefaults(p.v), fin_paths, transcript_paths, mkt)]

\* ------------------------------------------------------------- what the model may answer

RECURSIVE JsonText(_), JsonItems(_), JsonMembers(_)

\* v written as compact JSON text
JsonText(v) ==
    CASE v.t = "str" -> <<"Q">> \o v.s \o <<"Q">>
      [] v.t = "num" -> v.s
      [] v.t = "list" -> <<"[">> \o JsonItems(v.a) \o <<"]">>
      [] v.t = "dict" -> <<"{">> \o JsonMembers(v.o) \o <<"}">>
      [] OTHER -> <<"null">>

JsonItems(items) ==
    IF items = <<>> THEN <<>>
    ELSE JsonText(Head(items)) \o (IF Len(items) > 1 THEN <<",">> \o JsonItems(Tail(items)) ELSE <<>>)

JsonMembers(items) ==
    IF items = <<>> THEN <<>>
    ELSE <<"Q">> \o Head(items).k \o <<"Q", ":">> \o JsonText(Head(items).v)
         \o (IF Len(items) > 1 THEN <<",">> \o JsonMembers(Tail(items)) ELSE <<>>)

FullAnswer ==
    Dict(<<Item("company", S("TCS")),
           Item("period_analyzed", List(<<S("Q1")>>)),
           Item("financial_trends",
                Dict(<<Item("revenue", S("increasing")), Item("net_profit", S("stable")),
                       Item("operating_margin", S("stable"))>>)),
           Item("management_themes", List(<<S("demand")>>)),
           Item("risks", List(<<S("pricing")>>)),
           Item("opportunities", List(<<S("GenAI")>>)),
           Item("qualitative_forecast_next_quarter", S("steady")),
           Item("confidence",
                Dict(<<Item("level", S("medium")), Item("reasons", List(<<S("two quarters")>>))>>))>>)

PartialTrendsAnswer ==
    Dict(<<Item("financial_trends", Dict(<<Item("revenue", S("increasing"))>>)),
           Item("confidence", Dict(<<Item("level", S("high"))>>))>>)

WrongShapeAnswer == Dict(<<Item("risks", S("none")), Item("financial_trends", S("flat"))>>)

SpoofedAnswer ==
    Dict(<<Item("sources", Dict(<<Item("financial_docs", List(<<S("fake.pdf")>>)),
                                  Item("origin", S("model"))>>)),
           Item("market_context", Dict(<<Item("price_inr", Num(<<"1", "1">>))>>))>>)

FenceInStringAnswer == Dict(<<Item("company", Str(<<"F", "TCS", "F">>))>>)

ProseText == <<"Sorry", " ", "no", " ", "forecast">>
FencedText == <<"F", "J", " ">> \o JsonText(FullAnswer) \o <<" ", "F">>
BareFencedText == <<"F">> \o JsonText(Dict(<<>>)) \o <<"F">>
WrappedText == <<"Here", " ">> \o JsonText(SpoofedAnswer) \o <<" ", "done">>
FenceInFencedText == <<"F", "J">> \o JsonText(Dict(<<Item("risks", List(<<Str(<<"F">>)>>))>>)) \o <<"F">>
BrokenBracesText == <<"{", "oops", "}">>

RawTexts ==
    { ProseText, JsonText(FullAnswer), JsonText(Dict(<<>>)), JsonText(PartialTrendsAnswer),
      JsonText(WrongShapeAnswer), JsonText(SpoofedAnswer), JsonText(FenceInStringAnswer),
      FencedText, BareFencedText, WrappedText, FenceInFencedText, BrokenBracesText,
      JsonText(List(<<Num(<<"1">>)>>)), JsonText(Num(<<"1">>)) }

\* ------------------------------------------------------------- the call of run, stage by stage

DefaultLimits == [n |-> DefaultMaxSnippets, m |-> DefaultMaxChars]
NoParse == [ok |-> FALSE, v |-> Nil]

Init ==
    /\ pc = "idle"
    /\ disk \in [Paths -> FileKinds]
    /\ financial_pdfs = <<>>
    /\ transcripts = <<>>
    /\ fin = Nil
    /\ raw_themes = Nil
    /\ limits = DefaultLimits
    /\ themes = List(<<>>)
    /\ market = Nil
    /\ marketResp = ""
    /\ raw = <<>>
    /\ parsed = NoParse
    /\ result = Nil
    /\ stages = <<>>
    /\ llmCalls = 0
    /\ ragLog = <<>>
    /\ error = ""
    /\ NoPrompt

\* run(query, financial_pdfs, transcripts) is called
Call ==
    /\ pc = "idle"
    /\ financial_pdfs' \in SeqsUpTo(Paths, MaxDocs)
    /\ transcripts' \in SeqsUpTo(Paths, MaxTranscripts)
    /\ pc' = "extract"
    /\ fin' = Nil
    /\ raw_themes' = Nil
    /\ themes' = List(<<>>)
    /\ market' = Nil
    /\ marketResp' = ""
    /\ raw' = <<>>
    /\ parsed' = NoParse
    /\ result' = Nil
    /\ stages' = <<>>
    /\ llmCalls' = 0
    /\ ragLog' = <<>>
    /\ error' = ""
    /\ UNCHANGED <<disk, limits>>
    /\ UNCHANGED promptVars

\* 1) fin = extract_financial_metrics(financial_pdfs)
Extract ==
    /\ pc = "extract"
    /\ fin' = ExtractFinancialMetrics(financial_pdfs, disk)
    /\ stages' = Append(stages, "extract")
    /\ pc' = "retrieve"
    /\ UNCHANGED <<disk, financial_pdfs, transcripts, raw_themes, limits, themes, market, marketResp,
                   raw, parsed, result, llmCalls, ragLog, error>>
    /\ UNCHANGED promptVars

\* 2) the themes, from the retriever or a sentinel
Retrieve ==
    /\ pc = "retrieve"
    /\ \E outcome \in RagOutcomes :
         LET r == Retrieval(transcripts, disk, outcome)
         IN /\ themes' = r.themes
            /\ raw_themes' = r.raw_themes
            /\ ragLog' = r.calls
            /\ pc' = IF r.raised THEN "raised" ELSE "market"
            /\ error' = IF r.raised THEN "retriever" ELSE error
    /\ stages' = Append(stages, "retrieve")
    /\ UNCHANGED <<disk, financial_pdfs, transcripts, fin, limits, market, marketResp, raw, parsed,
                   result, llmCalls>>
    /\ UNCHANGED promptVars

\* 3) market = fetch_tcs_stock_price()
Market ==
    /\ pc = "market"
    /\ \E resp \in MarketResponses :
         /\ marketResp' = resp
         /\ market' = FetchTcsStockPrice(resp)
    /\ stages' = Append(stages, "market")
    /\ pc' = "invoke"
    /\ UNCHANGED <<disk, financial_pdfs, transcripts, fin, raw_themes, limits, themes,
                   raw, parsed, result, llmCalls, ragLog, error>>
    /\ UNCHANGED promptVars

\* 4) raw = self.llm.invoke(messages).content; the call is outside any try
Invoke ==
    /\ pc = "invoke"
    /\ llmCalls' = llmCalls + 1
    /\ stages' = Append(stages, "invoke")
    /\ \/ /\ raw' \in RawTexts
          /\ pc' = "normalize"
          /\ error' = error
       \/ /\ raw' = raw
          /\ pc' = "raised"
          /\ error' = "llm.invoke"
    /\ UNCHANGED <<disk, financial_pdfs, transcripts, fin, raw_themes, limits, themes,
                   market, marketResp, parsed, result, ragLog>>
    /\ UNCHANGED promptVars

\* Normalize, were the model asked again after an answer that does not parse
NormalizeWithRetry ==
    /\ pc = "normalize"
    /\ parsed' = ParseJsonLoose(raw)
    /\ LET n == Normalized(parsed', themes, financial_pdfs, transcripts, market)
           again == ~parsed'.ok /\ llmCalls < 2
       IN /\ result' = IF again THEN result ELSE n.result
          /\ pc' = IF again THEN "invoke" ELSE IF n.raised THEN "raised" ELSE "returned"
          /\ error' = IF n.raised THEN "AttributeError" ELSE error
    /\ stages' = Append(stages, "normalize")
    /\ UNCHANGED <<disk, financial_pdfs, transcripts, fin, raw_themes, limits, themes,
                   market, marketResp, raw, llmCalls, ragLog>>
    /\ UNCHANGED promptVars

\* 5) and 6) parse, fall back or fill in, return
Normalize ==
    /\ pc = "normalize"
    /\ parsed' = ParseJsonLoose(raw)
    /\ LET n == Normalized(parsed', themes, financial_pdfs, transcripts, market)
       IN /\ result' = n.result
          /\ pc' = IF n.raised THEN "raised" ELSE "returned"
          /\ error' = IF n.raised THEN "AttributeError" ELSE error
    /\ stages' = Append(stages, "normalize")
    /\ UNCHANGED <<disk, financial_pdfs, transcripts, fin, raw_themes, limits, themes,
                   market, marketResp, raw, llmCalls, ragLog>>
    /\ UNCHANGED promptVars

Next == Call \/ Extract \/ Retrieve \/ Market \/ Invoke \/ Normalize

Spec == Init /\ [][Next]_vars

\* ------------------------------------------------------------- _parse_json_loose on its own

Alphabet == {"{", "}", "Q", "F", "J", ":", "1", " "}

Idle ==
    /\ financial_pdfs = <<>>
    /\ transcripts = <<>>
    /\ fin = Nil
    /\ market = Nil
    /\ marketResp = ""
    /\ result = Nil
    /\ stages = <<>>
    /\ llmCalls = 0
    /\ ragLog = <<>>
    /\ error = ""
    /\ disk = [p \in Paths |-> "unreadable"]

InitParse ==
    /\ Idle
    /\ pc = "parse"
    /\ raw \in SeqsUpTo(Alphabet, MaxTextLen) \cup RawTexts
    /\ parsed = NoParse
    /\ raw_themes = Nil
    /\ limits = DefaultLimits
    /\ themes = List(<<>>)
    /\ NoPrompt

ParseStep ==
    /\ pc = "parse"
    /\ parsed' = ParseJsonLoose(raw)
    /\ pc' = "parsed"
    /\ UNCHANGED <<disk, financial_pdfs, transcripts, fin, raw_themes, limits, themes,
                   market, marketResp, raw, result, stages, llmCalls, ragLog, error>>
    /\ UNCHANGED promptVars

NextParse == ParseStep

SpecParse == InitParse /\ [][NextParse]_vars

\* ------------------------------------------------------------- _compress_themes on its own

Letters == <<"a", "b", "c", "d", "e", "f", "g", "h">>
LongSnippet == Str(Take(Letters, MaxSnippetLen))
SnippetPool == {LongSnippet, S("z"), Num(<<"1">>)}

\* what a topic may carry: a list of snippets, or something that is no list
TopicValues == {List(l) : l \in SeqsUpTo(SnippetPool, MaxSnippets)} \cup {S("no list")}
ShortTopicValues == {List(l) : l \in SeqsUpTo(SnippetPool, 1)} \cup {S("no list")}

ThemeMaps ==
    {Dict(<<Item("growth", v)>>) : v \in TopicValues}
    \cup {Dict(<<Item("margin", w), Item("growth", v)>>) : v \in TopicValues, w \in ShortTopicValues}
    \cup {Dict(<<>>), NoTranscriptSentinel, DegradedSentinel}

InitCompress ==
    /\ Idle
    /\ pc = "compress"
    /\ raw_themes \in ThemeMaps
    /\ limits \in [n : 0..MaxLimit, m : 0..MaxLimit]
    /\ themes = List(<<>>)
    /\ raw = <<>>
    /\ parsed = NoParse
    /\ NoPrompt

CompressStep ==
    /\ pc = "compress"
    /\ themes' = CompressThemes(raw_themes, limits.n, limits.m)
    /\ pc' = "compressed"
    /\ UNCHANGED <<disk, financial_pdfs, transcripts, fin, raw_themes, limits, market, marketResp,
                   raw, parsed, result, stages, llmCalls, ragLog, error>>
    /\ UNCHANGED promptVars

NextCompress == CompressStep

SpecCompress == InitCompress /\ [][NextCompress]_vars

\* ------------------------------------------------------------- the user prompt on its own

MaxQueryChars == 4
LongChars == 12000

\* json.dumps of an empty dict or list, and of the metric set of no document
EmptyDumpChars == 2
NoDocsDumpChars == 71

\* what the block holds besides the query and the three json.dumps texts:
\* the fixed lines and the eleven line breaks
FixedChars ==
    TaskPrefixChars + FinHeadingChars + ThemesHeadingChars + MarketHeadingChars
    + ClosingChars + 11

\* the metric text with which a query of two characters and two empty
\* json.dumps texts fill the block to the ceiling exactly
FillChars == MAX_PROMPT_CHARS - FixedChars - 2 * EmptyDumpChars - 2

QueryLengths == (0..MaxQueryChars) \cup {LongChars}
DumpLengths ==
    [fin : {NoDocsDumpChars, FillChars, LongChars},
     themes : {EmptyDumpChars, 2 * ClosingChars, LongChars},
     market : {EmptyDumpChars, LongChars}]

InitPrompt ==
    /\ Idle
    /\ pc = "prompt"
    /\ query \in QueryLengths
    /\ dumps \in DumpLengths
    /\ user_prompt = <<>>
    /\ raw_themes = Nil
    /\ limits = DefaultLimits
    /\ themes = List(<<>>)
    /\ raw = <<>>
    /\ parsed = NoParse

PromptStep ==
    /\ pc = "prompt"
    /\ user_prompt' = UserPrompt(query, dumps)
    /\ pc' = "prompted"
    /\ UNCHANGED <<disk, financial_pdfs, transcripts, fin, raw_themes, limits, themes, market,
                   marketResp, raw, parsed, result, stages, llmCalls, ragLog, error, query, dumps>>

NextPrompt == PromptStep

SpecPrompt == InitPrompt /\ [][NextPrompt]_vars

\* ------------------------------------------------------------- extract_financial_metrics on its own

InitExtract ==
    /\ pc = "extracting"
    /\ disk \in [Paths -> FileKinds]
    /\ financial_pdfs \in SeqsUpTo(Paths, MaxDocs + 1)
    /\ transcripts = <<>>
    /\ fin = Nil
    /\ market = Nil
    /\ marketResp = ""
    /\ result = Nil
    /\ stages = <<>>
    /\ llmCalls = 0
    /\ ragLog = <<>>
    /\ error = ""
    /\ raw_themes = Nil
    /\ limits = DefaultLimits
    /\ themes = List(<<>>)
    /\ raw = <<>>
    /\ parsed = NoParse
    /\ NoPrompt

\* extract_financial_metrics(financial_pdfs) returns: a failed read is caught
\* in the loop, and nothing else in the function raises
ExtractStep ==
    /\ pc = "extracting"
    /\ fin' = ExtractFinancialMetrics(financial_pdfs, disk)
    /\ pc' = "extracted"
    /\ UNCHANGED <<disk, financial_pdfs, transcripts, raw_themes, limits, themes, market,
                   marketResp, raw, parsed, result, stages, llmCalls, ragLog, error>>
    /\ UNCHANGED promptVars

NextExtract == ExtractStep

SpecExtract == InitExtract /\ [][NextExtract]_vars

\* ------------------------------------------------------------- the claims

HasList(d, k) == HasKey(d, k) /\ IsList(Get(d, k))
HasDict(d, k) == HasKey(d, k) /\ IsDict(Get(d, k))

\* every documented key, with the documented shape
SchemaComplete(r) ==
    /\ IsDict(r)
    /\ HasKey(r, K("company"))
    /\ HasKey(r, K("qualitative_forecast_next_quarter"))
    /\ \A k \in {"period_analyzed", "management_themes", "risks", "opportunities"} :
         HasList(r, K(k))
    /\ \A k \in {"financial_trends", "confidence", "sources", "market_context"} :
         HasDict(r, K(k))
    /\ \A k \in {"revenue", "net_profit", "operating_margin"} :
         HasKey(Get(r, K("financial_trends")), K(k))
    /\ HasKey(Get(r, K("confidence")), K("level"))
    /\ HasList(Get(r, K("confidence")), K("reasons"))
    /\ HasKey(Get(r, K("sources")), K("financial_docs"))
    /\ HasKey(Get(r, K("sources")), K("transcripts"))

Finished == pc \in {"returned", "raised"}
AfterRetrieval == pc \in {"market", "invoke", "normalize", "returned", "raised"}
AllStages == <<"extract", "retrieve", "market", "invoke", "normalize">>

\* C1: whatever run returns holds every documented top-level and nested key,
\* each with a value of the documented shape.
C1_SchemaComplete == pc = "returned" => SchemaComplete(result)

\* C2: no call of run ends by an exception.
C2_NeverRaises == pc # "raised"

\* C3: in every returned result, sources is exactly the two path lists run was
\* given and market_context is what the market fetch of this call gave (the
\* empty mapping when the request failed), whatever the model wrote under
\* those keys.
C3_PipelineOwnsSources ==
    pc = "returned" =>
        /\ Get(result, K("sources")) = SourcesOf(financial_pdfs, transcripts)
        /\ Get(result, K("market_context")) = FetchTcsStockPrice(marketResp)
        /\ marketResp = "error" => Get(result, K("market_context")) = Dict(<<>>)

\* C3: a result returned for an answer in which the model wrote its own
\* sources and market_context.
C3_Witness ==
    /\ pc = "returned"
    /\ parsed.ok
    /\ HasKey(parsed.v, K("sources"))
    /\ HasKey(parsed.v, K("market_context"))
    /\ Get(parsed.v, K("sources")) # Get(result, K("sources"))
    /\ Get(parsed.v, K("market_context")) # Get(result, K("market_context"))
    /\ financial_pdfs # <<>>
    /\ marketResp = "error"

\* C4: when _parse_json_loose fails on the model's text, run returns (it does
\* not raise) the fallback: the three trends are "unclear", risks names the
\* invalid model output, and confidence.level is "low".
C4_FallbackOnParseFailure ==
    (Finished /\ Len(stages) = Len(AllStages) /\ ~parsed.ok) =>
        /\ pc = "returned"
        /\ \A k \in {"revenue", "net_profit", "operating_margin"} :
             Get(Get(result, K("financial_trends")), K(k)) = S("unclear")
        /\ \E i \in DOMAIN Get(result, K("risks")).a :
             Get(result, K("risks")).a[i] = S("Model output invalid JSON")
        /\ Get(Get(result, K("confidence")), K("level")) = S("low")

\* C4: run has returned for plain prose.
C4_Witness == pc = "returned" /\ raw = ProseText /\ ~parsed.ok

FencedInners(t) ==
    IF Len(t) >= 2 /\ t[1] = "F" /\ t[Len(t)] = "F"
    THEN {SubSeq(t, 2, Len(t) - 1)}
         \cup (IF Len(t) >= 3 /\ t[2] = "J" THEN {SubSeq(t, 3, Len(t) - 1)} ELSE {})
    ELSE {}

\* C6: for a text that is one fenced block (with or without the json tag)
\* around valid JSON, _parse_json_loose returns what parsing the inner text
\* gives.
C6_FencedBlockRecovered ==
    pc = "parsed" =>
        \A inner \in FencedInners(raw) : JsonLoads(inner).ok => parsed = JsonLoads(inner)

\* out is the text cut to at most m chunks
CutTo(out, text, m) ==
    /\ Len(out) = (IF m < Len(text) THEN m ELSE Len(text))
    /\ \A c \in 1..Len(out) : out[c] = text[c]

\* the places among the first n snippets that hold a passage
Usable(snippets, n) == {i \in DOMAIN snippets : i <= n /\ IsStr(snippets[i])}

\* out holds the usable snippets, in their order, each cut to m chunks
LeadingPassagesCut(out, snippets, n, m) ==
    /\ Len(out) = Cardinality(Usable(snippets, n))
    /\ \A i \in Usable(snippets, n) :
         LET r == Cardinality({j \in Usable(snippets, n) : j <= i})
         IN IsStr(out[r]) /\ CutTo(out[r].s, snippets[i].s, m)

\* C7: _compress_themes on a mapping, with limits n and m: every topic of the
\* output carries between one and n passages of at most m chunks each; they
\* are the passages among the topic's first n snippets, in their order, each
\* cut to its first m chunks; and a topic of the input is in the output
\* exactly when there is at least one such passage.
C7_CompressBounds ==
    (pc = "compressed" /\ IsDict(raw_themes)) =>
        /\ IsDict(themes)
        /\ \A j \in DOMAIN themes.o :
             /\ HasKey(raw_themes, themes.o[j].k)
             /\ IsList(themes.o[j].v)
             /\ themes.o[j].v.a # <<>>
             /\ Len(themes.o[j].v.a) <= limits.n
             /\ \A c \in DOMAIN themes.o[j].v.a :
                  IsStr(themes.o[j].v.a[c]) /\ Len(themes.o[j].v.a[c].s) <= limits.m
        /\ \A j \in DOMAIN raw_themes.o :
             IF IsList(raw_themes.o[j].v) /\ Usable(raw_themes.o[j].v.a, limits.n) # {}
             THEN /\ HasKey(themes, raw_themes.o[j].k)
                  /\ LeadingPassagesCut(Get(themes, raw_themes.o[j].k).a,
                                        raw_themes.o[j].v.a, limits.n, limits.m)
             ELSE ~HasKey(themes, raw_themes.o[j].k)

\* C7: a mapping was compressed in which one topic was dropped and the other
\* lost a passage and had one cut short.
C7_Witness ==
    /\ pc = "compressed"
    /\ IsDict(raw_themes)
    /\ Len(raw_themes.o) = 2
    /\ Len(themes.o) = 1
    /\ limits.n >= 1
    /\ limits.m >= 1
    /\ \E j \in DOMAIN raw_themes.o :
         /\ IsList(raw_themes.o[j].v)
         /\ HasKey(themes, raw_themes.o[j].k)
         /\ Len(raw_themes.o[j].v.a) > limits.n
         /\ Len(Get(themes, raw_themes.o[j].k).a) = limits.n
         /\ \E c \in 1..limits.n :
              /\ IsStr(raw_themes.o[j].v.a[c])
              /\ Len(raw_themes.o[j].v.a[c].s) > limits.m

\* C8: when the transcript list is not empty and a call to the retriever
\* raised, the themes are the degraded sentinel, the metric set is still what
\* extraction made of the financial documents, the exception does not leave
\* run, the market fetch follows, and the call does not end before the model
\* was invoked once; a call that returns went through every stage.
C8_RetrieverFailureDegrades ==
    (transcripts # <<>> /\ AfterRetrieval /\ RagFailed(ragLog)) =>
        /\ themes = DegradedSentinel
        /\ fin = ExtractFinancialMetrics(financial_pdfs, disk)
        /\ error # "retriever"
        /\ pc # "market" => marketResp # ""
        /\ Finished => llmCalls = 1
        /\ pc = "returned" => stages = AllStages

\* C8: run has returned after build_index raised, with documents extracted.
C8_Witness ==
    /\ pc = "returned"
    /\ transcripts # <<>>
    /\ Len(ragLog) = 2
    /\ ragLog[2] = RagCall("build_index", TRUE)
    /\ Get(fin, K("documents")).a # <<>>
    /\ parsed.ok

\* C9: a text that is itself valid JSON for an object is parsed to that
\* object, wherever it holds fence markers.
C9_RawObjectRecovered ==
    pc = "parsed" =>
        ((JsonLoads(raw).ok /\ IsDict(JsonLoads(raw).v)) => parsed = JsonLoads(raw))

IsPrefix(s1, s2) == Len(s1) <= Len(s2) /\ \A i \in DOMAIN s1 : s1[i] = s2[i]

\* C10: the stages of a call run in the order extraction, retrieval, market
\* fetch, model invocation, normalization, each at most once, and a call
\* that has ended, by a result or by an exception, invoked the model exactly
\* once.
C10_StageOrderOneInvocation ==
    /\ IsPrefix(stages, AllStages)
    /\ llmCalls = Cardinality({i \in DOMAIN stages : stages[i] = "invoke"})
    /\ llmCalls <= 1
    /\ Finished => llmCalls = 1

\* C10: run has returned the fallback after the retriever and the market
\* request both failed.
C10_Witness ==
    /\ pc = "returned"
    /\ ~parsed.ok
    /\ RagFailed(ragLog)
    /\ marketResp = "error"
    /\ stages = AllStages
    /\ llmCalls = 1

\* the sections of the block, in the order run lists them
SectionOrder ==
    <<"Task: ", "query", "fin_heading", "fin", "themes_heading", "themes",
      "market_heading", "market", "closing">>

\* the sections that text holds characters of, in the order they come
SectionsOf(text) ==
    LET named == SelectSeq(text, LAMBDA r : r.part # "\n")
    IN [i \in DOMAIN named |-> named[i].part]

Rank(part) == CHOOSE i \in DOMAIN SectionOrder : SectionOrder[i] = part

\* out is block without some of its leading characters
IsTailOf(out, block) ==
    \/ out = <<>>
    \/ /\ Len(out) <= Len(block)
       /\ LET j == Len(block) - Len(out) + 1
          IN /\ out[1].part = block[j].part
             /\ out[1].hi = block[j].hi
             /\ out[1].lo >= block[j].lo
             /\ \A i \in 2..Len(out) : out[i] = block[j + i - 1]

\* C11: the block is the task line, the metrics, the themes, the market
\* context and the closing instruction, in that order; the user message is
\* never longer than MAX_PROMPT_CHARS; a block of at most that length is sent
\* as it is; of a longer one the last MAX_PROMPT_CHARS characters are sent;
\* and in every case the message is the block without some leading
\* characters and ends with the whole closing instruction.
C11_PromptCeiling ==
    pc = "prompted" =>
        LET block == Join(UserParts(query, dumps))
            total == FixedChars + query + dumps.fin + dumps.themes + dumps.market
        IN /\ Chars(block) = total
           /\ SectionsOf(block) = SelectSeq(SectionOrder, LAMBDA p : p # "query" \/ query > 0)
           /\ \A i, j \in DOMAIN SectionsOf(user_prompt) :
                i < j => Rank(SectionsOf(user_prompt)[i]) < Rank(SectionsOf(user_prompt)[j])
           /\ Chars(user_prompt) <= MAX_PROMPT_CHARS
           /\ total <= MAX_PROMPT_CHARS => user_prompt = block
           /\ total > MAX_PROMPT_CHARS => Chars(user_prompt) = MAX_PROMPT_CHARS
           /\ IsTailOf(user_prompt, block)
           /\ user_prompt # <<>>
           /\ user_prompt[Len(user_prompt)] = Run("closing", 1, ClosingChars)

\* C11: a block one character over the ceiling was sent without its first
\* character.
C11_Witness ==
    /\ pc = "prompted"
    /\ FixedChars + query + dumps.fin + dumps.themes + dumps.market = MAX_PROMPT_CHARS + 1
    /\ Chars(user_prompt) = MAX_PROMPT_CHARS
    /\ user_prompt[1] = Run("Task: ", 2, TaskPrefixChars)

\* the places of pdf_paths whose document could be read
ReadPlaces(pdf_paths, fs) == {i \in DOMAIN pdf_paths : fs[pdf_paths[i]] # "unreadable"}

\* C12: extract_financial_metrics returns a metric set for any list of paths
\* and any set of unreadable documents; documents holds one entry for each
\* place of the list whose document was read, in the order of the list, and
\* none for the others; trend_summary.docs_analyzed is the list of the paths
\* of those entries; and revenue_direction and margin_direction are in
\* trend_summary exactly when two or more documents were read.
C12_ExtractPartialFailure ==
    pc = "extracted" =>
        LET read == ReadPlaces(financial_pdfs, disk)
            docs == Get(fin, K("documents")).a
            trend == Get(fin, K("trend_summary"))
            analyzed == Get(trend, K("docs_analyzed")).a
        IN /\ IsDict(fin)
           /\ error = ""
           /\ Len(docs) = Cardinality(read)
           /\ \A i \in read :
                Get(docs[Cardinality({j \in read : j <= i})], K("path")) = S(financial_pdfs[i])
           /\ Len(analyzed) = Len(docs)
           /\ \A r \in DOMAIN docs : analyzed[r] = Get(docs[r], K("path"))
           /\ HasKey(trend, K("revenue_direction")) <=> Cardinality(read) >= 2
           /\ HasKey(trend, K("margin_direction")) <=> Cardinality(read) >= 2

\* C12: of two paths given, the first could not be read: one document, and no
\* comparison flag.
C12_Witness ==
    /\ pc = "extracted"
    /\ Len(financial_pdfs) = 2
    /\ ReadPlaces(financial_pdfs, disk) = {2}
    /\ Len(Get(fin, K("documents")).a) = 1
    /\ ~HasKey(Get(fin, K("trend_summary")), K("revenue_direction"))

=============================================================================
